---- MODULE Spec2Model ----
(***************************************************************************)
(* Wallet ledger of the storefront: UserProfile.balance, the               *)
(* WalletTransaction log, the currency conversion used by both, and the    *)
(* views that drive them (top-up, payment, settings, checkout).            *)
(*                                                                         *)
(* Money is an integer number of thousandths (mills) of the currency unit, *)
(* so that an amount with three decimals such as 1.005 is representable;   *)
(* a value stored in a DecimalField(decimal_places=2) is a multiple of 10. *)
(* One user, one session; requests are served by two workers whose         *)
(* database statements interleave.  The username rate limit, the price     *)
(* watch (snapshot_prices) and the exchange rate resolver with its cache   *)
(* and stored rates have their own state and their own specifications.     *)
(***************************************************************************)
EXTENDS Integers, Sequences, FiniteSets, TLC

(* ------------------------------ bounds --------------------------------- *)
\* requests (top-up, payment, settings, direct method call) started in one
\* behaviour; cart changes and checkouts are bounded by the two bounds below
MaxRequests == 3
\* WalletTransaction inserts that the database may fail in one behaviour
MaxFaults == 1
\* pending orders created by checkout, and quantity of one cart line
MaxOrders == 1
MaxQty == 2
\* days the price watch runs over, and notifications it may have created
\* before a run
MaxDay == 2
MaxNotifications == 2
\* calls of _fetch_rates started, CurrencyRate rows created by hand, and ticks
\* of the resolver clock, in one behaviour
MaxCalls == 3
MaxRates == 2
MaxTicks == 2

Workers == {"w1", "w2"}

\* the currencies the forms of the model offer (a subset of _FALLBACK_USD)
Currencies == {"USD", "EUR"}
\* the keys of _FALLBACK_USD the model keeps
Supported == {"USD", "EUR", "UAH"}
\* currency codes a caller may pass: the supported ones and one that is not
Codes == Supported \cup {"XYZ"}

\* amounts typed into the top-up form, in mills: 0.90 (below the minimum in
\* both currencies), 1.005 and 10.00 (10.00 EUR is 10.87 USD)
TopUpAmounts == {900, 1005, 10000}
\* amounts passed to a direct deduct_balance call, in mills: 0 and 6.00
DirectAmounts == {0, 6000}

\* the catalogue: one non-free game, 6.00 USD
Games == {"g1"}
GamePrice == [g \in Games |-> 6000]
GameCurrency == [g \in Games |-> "USD"]

(* --------------------------- decimal helpers --------------------------- *)
\* an amount argument or form field that Decimal() cannot parse ("abc", "");
\* every other amount is a number of mills
NotANumber == -2000000000

Abs(x) == IF x < 0 THEN -x ELSE x
Sgn(x) == IF x < 0 THEN -1 ELSE 1

\* n/d (mills, d > 0) quantized to 0.01 with ROUND_HALF_UP; on an exact tie
\* tie >= 0 rounds away from zero and tie < 0 towards zero (tie is the sign
\* of the error of the float rate that produced n/d; 0 for an exact value)
QuantizeHalfUp(n, d, tie) ==
    LET a == Abs(n)
        q == a \div (10 * d)
        r == a % (10 * d)
        up == (2 * r > 10 * d) \/ (2 * r = 10 * d /\ tie >= 0)
    IN  Sgn(n) * 10 * (IF up THEN q + 1 ELSE q)

\* Decimal.quantize(Decimal('0.01'), rounding=ROUND_HALF_UP) of x mills
RoundHalfUp2(x) == QuantizeHalfUp(x, 1, 0)

\* what a DecimalField(decimal_places=2) column holds after x mills is saved:
\* the backend formats the value with the default decimal context, whose
\* rounding is ROUND_HALF_EVEN
DbDecimal2(x) ==
    LET a == Abs(x)
        q == a \div 10
        r == a % 10
        up == (r > 5) \/ (r = 5 /\ q % 2 = 1)
    IN  Sgn(x) * 10 * (IF up THEN q + 1 ELSE q)

(* ------------------------- exchange rate resolver ---------------------- *)
\* _FALLBACK_USD, times 100
FALLBACK_USD == [c \in Supported |->
    CASE c = "USD" -> 100
      [] c = "EUR" -> 92
      [] c = "UAH" -> 4100]

\* sign of (float(val / rate_base) as printed by str()) - (val / rate_base):
\* the derived rates are binary floats, and Decimal(str(rate)) is what
\* convert_amount multiplies by
FloatRateErr(base, cur) ==
    CASE base = "EUR" /\ cur # "EUR" -> -1
      [] base = "UAH" /\ cur # "UAH" -> 1
      [] OTHER -> 0

\* _fetch_rates(base) with CURRENCY_FETCH_ENABLED = False, an empty cache and
\* no CurrencyRate rows: the static table, pivoted through USD; for a base
\* that is not a key of the table, the table itself.  A rate is the fraction
\* num/den with the sign of its float error.
fetch_rates(base) ==
    IF base = "USD" \/ base \notin Supported
    THEN [cur \in Supported |-> [num |-> FALLBACK_USD[cur], den |-> 100, err |-> 0]]
    ELSE [cur \in Supported |->
            [num |-> FALLBACK_USD[cur], den |-> FALLBACK_USD[base],
             err |-> FloatRateErr(base, cur)]]

\* Decimal arithmetic keeps 28 significant digits (the default context) and
\* rounds half-even.  The operators below follow n/d through the long
\* division to its 28th digit.
DecimalPrec == 28

\* floor(log10(n/d)) for n, d > 0
RECURSIVE FloorLog10(_, _)
FloorLog10(n, d) ==
    IF n < d THEN FloorLog10(n * 10, d) - 1
    ELSE IF n \div 10 >= d THEN FloorLog10(n \div 10, d) + 1
    ELSE 0

\* n/d scaled to d <= n < 10 * d: <<n', d'>> with the same digits
RECURSIVE Normalized(_, _)
Normalized(n, d) ==
    IF n < d THEN Normalized(n * 10, d)
    ELSE IF n \div 10 >= d THEN Normalized(n, d * 10)
    ELSE <<n, d>>

\* the remainder and the last digit after k more digits of rem/d
RECURSIVE LongDivision(_, _, _, _)
LongDivision(rem, d, k, last) ==
    IF k = 0 THEN [rem |-> rem, last |-> last]
    ELSE LongDivision((rem * 10) % d, d, k - 1, (rem * 10) \div d)

\* the error of the 28-digit quotient of n/d, in units of its last digit, as
\* the fraction num/den
DivisionError(n, d) ==
    LET nd == Normalized(n, d)
        r == LongDivision(nd[1] % nd[2], nd[2], DecimalPrec - 1, nd[1] \div nd[2])
        up == \/ 2 * r.rem > nd[2]
              \/ (2 * r.rem = nd[2] /\ r.last % 2 = 1)
    IN  [num |-> IF up THEN nd[2] - r.rem ELSE 0 - r.rem, den |-> nd[2]]

RECURSIVE Pow10(_)
Pow10(k) == IF k = 0 THEN 1 ELSE 10 * Pow10(k - 1)

\* (amount / r_from) * r_to for amount = a mills, r_from = nf/100 and
\* r_to = nt/100, when the exact result is a whole number of half cents: the
\* sign of (computed - exact).  The quotient carries DivisionError; the product
\* is rounded to 28 digits again, which gives the exact value back when the
\* error it carries is at most half a unit of the product's last digit.
PivotTie(a, nf, nt) ==
    IF a = 0 THEN 0
    ELSE LET e == DivisionError(Abs(a), 10 * nf)
             shift == FloorLog10(Abs(a), 10 * nf) - FloorLog10(Abs(a) * nt, 1000 * nf)
             lhs == 2 * Abs(e.num) * nt * (IF shift > 0 THEN Pow10(shift) ELSE 1)
             rhs == 100 * e.den * (IF shift < 0 THEN Pow10(0 - shift) ELSE 1)
         IN  IF e.num = 0 \/ lhs <= rhs THEN 0 ELSE Sgn(e.num)

\* convert_amount that only rounds, whatever the currencies
convert_amount_same_rate(amount, from_currency, to_currency) ==
    RoundHalfUp2(amount)

\* lines 121-136 of convert_amount for the rate sets its calls of
\* _fetch_rates return: the direct rate, else the pivot through USD, else the
\* amount itself
convert_with_rates(amount, from_currency, to_currency, rates_from, usd_rates) ==
    IF to_currency \notin DOMAIN rates_from
    THEN \* rate_to is None: pivot through USD if both rates exist
         IF /\ from_currency \in DOMAIN usd_rates
            /\ to_currency \in DOMAIN usd_rates
            /\ usd_rates[from_currency].num # 0
            /\ usd_rates[to_currency].num # 0
         THEN LET nf == usd_rates[from_currency].num
                  nt == usd_rates[to_currency].num
                  df == usd_rates[from_currency].den
                  dt == usd_rates[to_currency].den
              IN  IF df = 100 /\ dt = 100
                  THEN QuantizeHalfUp(amount * nt, nf, PivotTie(amount, nf, nt))
                  ELSE QuantizeHalfUp(amount * nt * df, nf * dt, 0)
         ELSE RoundHalfUp2(amount)
    ELSE LET rate_to == rates_from[to_currency]
         IN  QuantizeHalfUp(amount * rate_to.num, rate_to.den, rate_to.err)

convert_amount(amount, from_currency, to_currency) ==
    IF from_currency = to_currency
    THEN RoundHalfUp2(amount)
    ELSE convert_with_rates(amount, from_currency, to_currency,
                            fetch_rates(from_currency), fetch_rates("USD"))

\* A call of convert_amount as its caller sees it.  e40 says the amount is
\* the given number of mills times 10^40: Decimal.quantize raises
\* InvalidOperation when the quantized result needs more digits than the
\* context precision (28), which a non-zero amount of that size does at any
\* rate of the table.  fetches counts the calls of _fetch_rates.
convert_amount_call(amount, e40, from_currency, to_currency) ==
    [raised |-> e40 /\ amount # 0,
     value |-> IF e40 /\ amount # 0 THEN 0
               ELSE convert_amount(amount, from_currency, to_currency),
     fetches |-> IF from_currency = to_currency THEN 0
                 ELSE IF to_currency \in DOMAIN fetch_rates(from_currency) THEN 1
                 ELSE 2]

(* ------------------------ UserProfile wallet methods ------------------- *)
\* A profile instance is a record [balance, preferred_currency, total_spent];
\* the methods below act on the in-memory instance, Save writes it out.

\* UserProfile.add_spending: total_spent += amount
add_spending(self, amount) ==
    [self EXCEPT !.total_spent = @ + amount]

\* add_balance without the checks on the amount
add_balance_unchecked(self, amount, currency) ==
    LET amt == IF currency # self.preferred_currency
               THEN convert_amount(amount, currency, self.preferred_currency)
               ELSE amount
    IN  [self EXCEPT !.balance = @ + amt]

\* UserProfile.add_balance: Decimal(str(amount)) failing returns early
add_balance(self, amount, currency) ==
    IF amount = NotANumber \/ amount <= 0
    THEN self
    ELSE LET amt == IF currency # self.preferred_currency
                    THEN convert_amount(amount, currency, self.preferred_currency)
                    ELSE amount
         IN  [self EXCEPT !.balance = @ + amt]

\* deduct_balance that compares the balance before the debit with zero
\* instead of the balance after it
deduct_balance_checks_old(self, amount, currency, allow_negative) ==
    IF amount = NotANumber \/ amount <= 0
    THEN [ok |-> FALSE, self |-> self]
    ELSE LET amt == IF currency # self.preferred_currency
                    THEN convert_amount(amount, currency, self.preferred_currency)
                    ELSE amount
         IN  IF ~allow_negative /\ self.balance < 0
             THEN [ok |-> FALSE, self |-> self]
             ELSE [ok |-> TRUE, self |-> [self EXCEPT !.balance = @ - amt]]

\* deduct_balance without the allow_negative guard
deduct_balance_unguarded(self, amount, currency, allow_negative) ==
    IF amount = NotANumber \/ amount <= 0
    THEN [ok |-> FALSE, self |-> self]
    ELSE LET amt == IF currency # self.preferred_currency
                    THEN convert_amount(amount, currency, self.preferred_currency)
                    ELSE amount
         IN  [ok |-> TRUE, self |-> [self EXCEPT !.balance = @ - amt]]

\* deduct_balance that reports success without assigning the new balance
deduct_balance_unassigned(self, amount, currency, allow_negative) ==
    IF amount = NotANumber \/ amount <= 0
    THEN [ok |-> FALSE, self |-> self]
    ELSE LET amt == IF currency # self.preferred_currency
                    THEN convert_amount(amount, currency, self.preferred_currency)
                    ELSE amount
         IN  IF ~allow_negative /\ self.balance - amt < 0
             THEN [ok |-> FALSE, self |-> self]
             ELSE [ok |-> TRUE, self |-> self]

\* UserProfile.deduct_balance: the returned flag and the instance afterwards
deduct_balance(self, amount, currency, allow_negative) ==
    IF amount = NotANumber \/ amount <= 0
    THEN [ok |-> FALSE, self |-> self]
    ELSE LET amt == IF currency # self.preferred_currency
                    THEN convert_amount(amount, currency, self.preferred_currency)
                    ELSE amount
             new_balance == self.balance - amt
         IN  IF ~allow_negative /\ new_balance < 0
             THEN [ok |-> FALSE, self |-> self]
             ELSE [ok |-> TRUE, self |-> [self EXCEPT !.balance = new_balance]]

\* convert_balance that converts the balance but keeps the old currency code
convert_balance_keeps_currency(self, new_currency) ==
    IF new_currency = self.preferred_currency
    THEN self
    ELSE [self EXCEPT
            !.balance = convert_amount(self.balance, self.preferred_currency, new_currency)]

\* UserProfile.convert_balance, on the instance (the save is the caller's or
\* the trailing self.save(update_fields=['balance', 'preferred_currency']))
convert_balance(self, new_currency) ==
    IF new_currency = self.preferred_currency
    THEN self
    ELSE [self EXCEPT
            !.balance = convert_amount(self.balance, self.preferred_currency, new_currency),
            !.preferred_currency = new_currency]

\* Model.save(update_fields=fields): the row after the instance is written;
\* decimal columns are quantized to two places by the backend
SaveProfile(row, inst, fields) ==
    [balance |-> IF "balance" \in fields THEN DbDecimal2(inst.balance) ELSE row.balance,
     preferred_currency |-> IF "preferred_currency" \in fields
                            THEN inst.preferred_currency ELSE row.preferred_currency,
     total_spent |-> IF "total_spent" \in fields
                     THEN DbDecimal2(inst.total_spent) ELSE row.total_spent]

AllProfileFields == {"balance", "preferred_currency", "total_spent"}

\* a WalletTransaction row as WalletTransaction.objects.create stores it;
\* a nullable column holds <<>> for NULL and <<v>> for the value v
WalletTransaction(amount, currency, source_amount, source_currency, kind, balance_after) ==
    [amount |-> DbDecimal2(amount),
     currency |-> currency,
     source_amount |-> IF source_amount = <<>> THEN <<>>
                       ELSE <<DbDecimal2(source_amount[1])>>,
     source_currency |-> source_currency,
     kind |-> kind,
     balance_after |-> DbDecimal2(balance_after)]

(* -------------------------------- state -------------------------------- *)
VARIABLES
    profile,    \* the user's UserProfile row
    txs,        \* the user's WalletTransaction rows, in creation order
    orders,     \* the user's Order rows; an order's id is its index
    cart,       \* CartItem rows: quantity per game, 0 for no row
    session,    \* request.session: pending_order_id, 0 when absent
    pc,         \* per worker: the statement its request is at
    loc,        \* per worker: the request's local variables and response
    started,    \* number of requests started so far
    other,      \* history: a request other than a top-up or a payment has started
    faults,     \* history: number of WalletTransaction inserts that failed
    username,   \* the user's auth User.username
    last_username_change,   \* UserProfile.last_username_change: <<>> for NULL, <<t>>
    now,        \* timezone.now(), in hours
    game,       \* per catalogue game of the price watch: its price and currency
    snapshots,  \* PriceSnapshot rows: per game and date, NoSnap for no row
    today,      \* timezone.now().date(), a day number
    notifications,  \* Notification rows of kind price_drop, in creation order
    rate_cache,     \* _CACHE: per base, the cached rate set and the call that wrote it
    rate_cache_ts,  \* _CACHE_TS: per base, the timestamp and the call that wrote it
    records,        \* CurrencyRate rows, in order of fetched_at
    fetch_enabled,  \* settings.CURRENCY_FETCH_ENABLED
    clock,          \* time.time(), in ticks of 1800 seconds
    calls,          \* number of _fetch_rates calls started so far
    net_requests    \* history: number of requests sent to the rate provider

\* the state read and written by the profile edit form only
account == <<username, last_username_change, now>>
\* the state read and written by the snapshot_prices command only
alerts == <<game, snapshots, today, notifications>>
\* the state read and written by the exchange rate resolver only
resolver == <<rate_cache, rate_cache_ts, records, fetch_enabled, clock, calls,
              net_requests>>

vars == <<profile, txs, orders, cart, session, pc, loc, started, other, faults,
          username, last_username_change, now,
          game, snapshots, today, notifications,
          rate_cache, rate_cache_ts, records, fetch_enabled, clock, calls,
          net_requests>>

\* the catalogue watched by snapshot_prices: a game with a Steam appid and one
\* entered by hand, without
WatchGames == {"galaxy-run", "manual"}
appid == [g \in WatchGames |-> IF g = "galaxy-run" THEN 777 ELSE 0]
\* no PriceSnapshot row for a (game, date)
NoSnap == [price |-> -1, currency |-> ""]

\* the bases _fetch_rates is called with
Bases == {"USD", "EUR"}
\* no entry in _CACHE, and no entry in _CACHE_TS (read as 0 by .get(base, 0))
NoCache == [rates |-> <<>>, by |-> 0]
NoStamp == [t |-> 0, by |-> 0]
\* time.time() when the process starts, in ticks
Epoch == 10

NewProfile == [balance |-> 0, preferred_currency |-> "USD", total_spent |-> 0]
NoOrder == [status |-> "none", total_price |-> 0, currency |-> "USD"]

\* the locals of a worker that has not served a request yet
NoRequest ==
    [kind |-> "none", amount |-> 0, currency |-> "USD", use_wallet |-> FALSE,
     oid |-> 0, rows |-> 0, loaded |-> NewProfile, prof |-> NewProfile, order |-> NoOrder,
     before |-> 0, to_charge |-> 0, attempted |-> FALSE, ok |-> FALSE,
     logged |-> FALSE, committed |-> FALSE, msgs |-> {}]

Request(kind, amount, currency, prof) ==
    [NoRequest EXCEPT !.kind = kind, !.amount = amount, !.currency = currency,
                      !.rows = Len(txs), !.loaded = profile, !.prof = prof]

Init ==
    /\ profile = NewProfile
    /\ txs = <<>>
    /\ orders = <<>>
    /\ cart = [g \in Games |-> 0]
    /\ session = 0
    /\ pc = [w \in Workers |-> "idle"]
    /\ loc = [w \in Workers |-> NoRequest]
    /\ started = 0
    /\ other = FALSE
    /\ faults = 0
    /\ username = "rateuser"
    /\ last_username_change = <<>>
    /\ now = 0
    /\ game = [g \in WatchGames |-> [price |-> 20000, currency |-> "USD"]]
    /\ snapshots = [g \in WatchGames |-> [d \in 1..MaxDay |-> NoSnap]]
    /\ today = 1
    /\ notifications = <<>>
    /\ rate_cache = [b \in Bases |-> NoCache]
    /\ rate_cache_ts = [b \in Bases |-> NoStamp]
    /\ records = <<>>
    /\ fetch_enabled = FALSE
    /\ clock = Epoch
    /\ calls = 0
    /\ net_requests = 0

\* a request is handed to the first idle worker
FirstIdle(w) ==
    /\ pc[w] = "idle"
    /\ (w = "w2" => pc["w1"] # "idle")

\* bookkeeping shared by the actions that start a request
Start(w, kind) ==
    /\ FirstIdle(w)
    /\ started < MaxRequests
    /\ started' = started + 1
    /\ other' = (other \/ kind \notin {"topup", "pay"})

\* the view returns: the response leaves, the request's locals are gone
Respond(w) ==
    /\ pc[w] = "respond"
    /\ pc' = [pc EXCEPT ![w] = "idle"]
    /\ loc' = [loc EXCEPT ![w] = NoRequest]
    /\ UNCHANGED <<profile, txs, orders, cart, session, started, other, faults, account, alerts, resolver>>

(* ------------------------- WalletTopUpView.post ------------------------ *)
\* the request arrives: LanguagePreferenceMiddleware loads request.user.profile
TopUpBegin(w, amt_raw, chosen_currency) ==
    /\ Start(w, "topup")
    /\ loc' = [loc EXCEPT ![w] = Request("topup", amt_raw, chosen_currency, profile)]
    /\ pc' = [pc EXCEPT ![w] = "topup_post"]
    /\ UNCHANGED <<profile, txs, orders, cart, session, faults, account, alerts, resolver>>

\* validation, minimum check, conversion and prof.add_balance(credited, target_cur)
TopUpPost(w) ==
    /\ pc[w] = "topup_post"
    /\ LET l == loc[w]
           amt == l.amount
           prof == l.prof
           min_amt == convert_amount(1000, "USD", l.currency)
           target_cur == prof.preferred_currency
           credited == IF l.currency # target_cur
                       THEN convert_amount(amt, l.currency, target_cur)
                       ELSE amt
           after == add_balance(prof, credited, target_cur)
       IN  IF amt = NotANumber
           THEN /\ loc' = [loc EXCEPT ![w].msgs = {"invalid_amount"}]
                /\ pc' = [pc EXCEPT ![w] = "respond"]
                /\ UNCHANGED profile
           ELSE IF amt <= 0
           THEN /\ loc' = [loc EXCEPT ![w].msgs = {"amount_must_be_positive"}]
                /\ pc' = [pc EXCEPT ![w] = "respond"]
                /\ UNCHANGED profile
           ELSE IF amt < min_amt
           THEN /\ loc' = [loc EXCEPT ![w].msgs = {"below_minimum"}]
                /\ pc' = [pc EXCEPT ![w] = "respond"]
                /\ UNCHANGED profile
           ELSE /\ loc' = [loc EXCEPT ![w].before = prof.balance,
                                      ![w].to_charge = credited,
                                      ![w].attempted = TRUE,
                                      ![w].ok = (credited > 0),
                                      ![w].prof = after]
                \* add_balance saves only when it did not return early
                /\ profile' = IF credited > 0
                              THEN SaveProfile(profile, after, {"balance"})
                              ELSE profile
                /\ pc' = [pc EXCEPT ![w] = "topup_log"]
    /\ UNCHANGED <<txs, orders, cart, session, started, other, faults, account, alerts, resolver>>

\* WalletTransaction.objects.create(...) inside try/except: pass
TopUpLog(w) ==
    /\ pc[w] = "topup_log"
    /\ LET l == loc[w]
           target_cur == l.loaded.preferred_currency
           delta == l.prof.balance - l.before
           converted == l.currency # target_cur
           row == WalletTransaction(delta, target_cur,
                      IF converted THEN <<l.amount>> ELSE <<>>,
                      IF converted THEN <<l.currency>> ELSE <<>>,
                      "topup", l.prof.balance)
       IN  \E insert_fails \in {FALSE, faults < MaxFaults} :
             /\ txs' = IF insert_fails THEN txs ELSE Append(txs, row)
             /\ faults' = IF insert_fails THEN faults + 1 ELSE faults
             /\ loc' = [loc EXCEPT ![w].logged = ~insert_fails,
                                   ![w].msgs = {"topped_up"}]
    /\ pc' = [pc EXCEPT ![w] = "respond"]
    /\ UNCHANGED <<profile, orders, cart, session, started, other, account, alerts, resolver>>

(* ------------------------------ cart, checkout ------------------------- *)
\* CartAddView.post for a non-free game: get_or_create the line, or quantity + 1
CartAdd(g) ==
    /\ GamePrice[g] # 0
    /\ cart[g] < MaxQty
    /\ cart' = [cart EXCEPT ![g] = @ + 1]
    /\ UNCHANGED <<profile, txs, orders, session, pc, loc, started, other, faults, account, alerts, resolver>>

CartGames == {g \in Games : cart[g] > 0}

\* the order currency: the currency of the first cart item's game
FirstItem == CHOOSE g \in CartGames : TRUE

RECURSIVE CartTotal(_, _)
CartTotal(gs, order_currency) ==
    IF gs = {} THEN 0
    ELSE LET g == CHOOSE x \in gs : TRUE
             line == GamePrice[g] * cart[g]
             conv == IF GameCurrency[g] # order_currency
                     THEN convert_amount(line, GameCurrency[g], order_currency)
                     ELSE line
         IN  conv + CartTotal(gs \ {g}, order_currency)

\* CheckoutView.post: with an empty cart, a message and a redirect to the
\* cart; otherwise create the pending order with its item snapshot, or
\* refresh the total of the pending order remembered in the session
CheckoutPost ==
    /\ IF CartGames = {}
       THEN UNCHANGED <<orders, session>>
       ELSE LET order_currency == GameCurrency[FirstItem]
                total == CartTotal(CartGames, order_currency)
                reuse == /\ session # 0
                         /\ session \in DOMAIN orders
                         /\ orders[session].status = "pending"
            IN  IF reuse
                THEN /\ orders' = [orders EXCEPT
                                     ![session].total_price = DbDecimal2(total),
                                     ![session].currency = order_currency]
                     /\ UNCHANGED session
                ELSE /\ Len(orders) < MaxOrders
                     /\ orders' = Append(orders,
                            [status |-> "pending", total_price |-> DbDecimal2(total),
                             currency |-> order_currency, items |-> cart])
                     /\ session' = Len(orders) + 1
    /\ UNCHANGED <<profile, txs, cart, pc, loc, started, other, faults, account, alerts, resolver>>

(* ---------------------------- PaymentView.post ------------------------- *)
\* the request arrives: the middleware loads request.user.profile, then
\* order = get_object_or_404(Order, id=pk, user=request.user).  The two reads
\* are one step: the order is only compared with 'paid', and no write of
\* another request in between can make this request behave differently from
\* one of the orders in which the two reads are not separated.
PayBegin(w, oid, use_wallet) ==
    /\ Start(w, "pay")
    /\ oid \in DOMAIN orders
    /\ loc' = [loc EXCEPT ![w] =
                 [Request("pay", 0, "USD", profile) EXCEPT
                    !.oid = oid, !.use_wallet = use_wallet,
                    !.order = [status |-> orders[oid].status,
                               total_price |-> orders[oid].total_price,
                               currency |-> orders[oid].currency]]]
    /\ pc' = [pc EXCEPT ![w] = "pay_atomic"]
    /\ UNCHANGED <<profile, txs, orders, cart, session, faults, account, alerts, resolver>>

\* a payment view that pays whatever the order's status
already_paid_never(order) == FALSE

\* line 1422, if order.status != 'paid': the order as the request read it
already_paid(order) == order.status = "paid"

\* if order.status != 'paid': with transaction.atomic(): ...
\* The block is one database transaction.  An insert that fails inside it
\* marks the transaction for rollback (Model.save_base), the next statement
\* (add_spending's save) then raises into the outer except, and leaving the
\* block rolls back every write of the block.
PayAtomic(w) ==
    /\ pc[w] = "pay_atomic"
    /\ LET l == loc[w]
           order == l.order
           prof == l.prof
           wallet == l.use_wallet /\ prof.balance > 0
           to_charge == IF order.currency # prof.preferred_currency
                        THEN convert_amount(order.total_price, order.currency,
                                            prof.preferred_currency)
                        ELSE order.total_price
           covered == wallet /\ prof.balance >= to_charge
           res == IF covered
                  THEN deduct_balance(prof, to_charge, prof.preferred_currency, FALSE)
                  ELSE [ok |-> FALSE, self |-> prof]
           row == WalletTransaction((prof.balance - res.self.balance) * (-1),
                      prof.preferred_currency, <<order.total_price>>,
                      <<order.currency>>, "purchase_deduct", res.self.balance)
           spent == add_spending(res.self, order.total_price)
           row1 == IF res.ok THEN SaveProfile(profile, res.self, {"balance"}) ELSE profile
           row2 == SaveProfile(row1, spent, {"total_spent"})
           msgs == IF covered THEN {"charged"}
                   ELSE IF wallet THEN {"insufficient"} ELSE {}
       IN  IF already_paid(order)
           THEN /\ loc' = [loc EXCEPT ![w].msgs = {}]
                /\ UNCHANGED <<profile, txs, orders, faults>>
           ELSE \E insert_fails \in {FALSE, res.ok /\ faults < MaxFaults} :
                  /\ loc' = [loc EXCEPT ![w].before = prof.balance,
                                        ![w].to_charge = to_charge,
                                        ![w].attempted = wallet,
                                        ![w].ok = res.ok,
                                        ![w].logged = res.ok /\ ~insert_fails,
                                        ![w].committed = ~insert_fails,
                                        ![w].prof = IF insert_fails THEN res.self ELSE spent,
                                        ![w].msgs = msgs]
                  /\ faults' = IF insert_fails THEN faults + 1 ELSE faults
                  /\ IF insert_fails
                     THEN UNCHANGED <<profile, txs, orders>>
                     ELSE /\ orders' = [orders EXCEPT ![l.oid].status = "paid"]
                          /\ profile' = row2
                          /\ txs' = IF res.ok THEN Append(txs, row) ELSE txs
    /\ pc' = [pc EXCEPT ![w] = "pay_finish"]
    /\ UNCHANGED <<cart, session, started, other, account, alerts, resolver>>

\* CartItem.objects.filter(user=...).delete(); session.pop('pending_order_id')
PayFinish(w) ==
    /\ pc[w] = "pay_finish"
    /\ cart' = [g \in Games |-> 0]
    /\ session' = 0
    /\ loc' = [loc EXCEPT ![w].msgs = @ \cup {"payment_success"}]
    /\ pc' = [pc EXCEPT ![w] = "respond"]
    /\ UNCHANGED <<profile, txs, orders, started, other, faults, account, alerts, resolver>>

(* --------------------------- settings views ---------------------------- *)
\* ModelForm.is_valid(): construct_instance copies cleaned_data into the
\* form's instance, preferred_currency included
FormIsValid(instance, new_cur) ==
    [instance EXCEPT !.preferred_currency = new_cur]

\* SettingsView.post, section 'general', up to form.save():
\* prof = get_profile(); form = Form(POST, instance=prof); form.is_valid();
\* old_cur = prof.preferred_currency; convert_balance if new_cur != old_cur
SettingsPost(w, new_cur) ==
    /\ Start(w, "settings")
    /\ LET prof == FormIsValid(profile, new_cur)
           old_cur == prof.preferred_currency
           inst == IF new_cur # old_cur THEN convert_balance(prof, new_cur) ELSE prof
       IN  loc' = [loc EXCEPT ![w] = Request("settings", 0, new_cur, inst)]
    /\ pc' = [pc EXCEPT ![w] = "settings_save"]
    /\ UNCHANGED <<profile, txs, orders, cart, session, faults, account, alerts, resolver>>

\* form.save(): instance.save() writes every column of the row
SettingsSave(w) ==
    /\ pc[w] = "settings_save"
    /\ profile' = SaveProfile(profile, loc[w].prof, AllProfileFields)
    /\ loc' = [loc EXCEPT ![w].msgs = {"settings_saved"}]
    /\ pc' = [pc EXCEPT ![w] = "respond"]
    /\ UNCHANGED <<txs, orders, cart, session, started, other, faults, account, alerts, resolver>>

\* ProfileSettingsView (UpdateView.post): self.object = get_object();
\* form = get_form(); form.is_valid()
ProfileSettingsPost(w, new_cur) ==
    /\ Start(w, "profile_settings")
    /\ loc' = [loc EXCEPT ![w] =
                 Request("profile_settings", 0, new_cur, FormIsValid(profile, new_cur))]
    /\ pc' = [pc EXCEPT ![w] = "form_valid"]
    /\ UNCHANGED <<profile, txs, orders, cart, session, faults, account, alerts, resolver>>

\* ProfileSettingsView.form_valid up to super().form_valid(form):
\* obj = get_object() reads the row again, obj.convert_balance(new_cur,
\* save=False), form.instance.balance = obj.balance
ProfileSettingsFormValid(w) ==
    /\ pc[w] = "form_valid"
    /\ LET obj == profile
           old_cur == obj.preferred_currency
           new_cur == loc[w].currency
           conv == convert_balance(obj, new_cur)
       IN  loc' = [loc EXCEPT ![w].loaded = obj,
                              ![w].rows = Len(txs),
                              ![w].prof.balance =
                                  IF new_cur # old_cur THEN conv.balance ELSE @]
    /\ pc' = [pc EXCEPT ![w] = "settings_save"]
    /\ UNCHANGED <<profile, txs, orders, cart, session, started, other, faults, account, alerts, resolver>>

(* ------------------------- direct method calls ------------------------- *)
\* profile.deduct_balance(amount, currency) on a freshly loaded instance,
\* allow_negative and save at their defaults (False, True)
DeductBalanceCall(w, amount, currency) ==
    /\ Start(w, "deduct_balance")
    /\ LET res == deduct_balance(profile, amount, currency, FALSE)
       IN  /\ profile' = IF res.ok THEN SaveProfile(profile, res.self, {"balance"})
                         ELSE profile
           /\ loc' = [loc EXCEPT ![w] =
                        [Request("deduct_balance", amount, currency, res.self)
                            EXCEPT !.attempted = TRUE, !.ok = res.ok]]
    /\ pc' = [pc EXCEPT ![w] = "respond"]
    /\ UNCHANGED <<txs, orders, cart, session, faults, account, alerts, resolver>>

\* profile.add_balance(amount, currency) on a freshly loaded instance, save=True.
\* The method saves unless it returned early; an early return leaves the
\* instance as loaded, and so does the save of an instance it did not change.
AddBalanceCall(w, amount, currency) ==
    /\ Start(w, "add_balance")
    /\ LET inst == add_balance(profile, amount, currency)
       IN  /\ profile' = SaveProfile(profile, inst, {"balance"})
           /\ loc' = [loc EXCEPT ![w] =
                        [Request("add_balance", amount, currency, inst)
                            EXCEPT !.attempted = TRUE, !.ok = (inst # profile)]]
    /\ pc' = [pc EXCEPT ![w] = "respond"]
    /\ UNCHANGED <<txs, orders, cart, session, faults, account, alerts, resolver>>

\* profile.convert_balance(new_currency) on a freshly loaded instance, save=True
ConvertBalanceCall(w, new_currency) ==
    /\ Start(w, "convert_balance")
    /\ LET inst == convert_balance(profile, new_currency)
       IN  /\ profile' = IF new_currency = profile.preferred_currency
                         THEN profile
                         ELSE SaveProfile(profile, inst, {"balance", "preferred_currency"})
           /\ loc' = [loc EXCEPT ![w] =
                        [Request("convert_balance", 0, new_currency, inst)
                            EXCEPT !.attempted = TRUE]]
    /\ pc' = [pc EXCEPT ![w] = "respond"]
    /\ UNCHANGED <<txs, orders, cart, session, faults, account, alerts, resolver>>

\* convert_amount(amount, from_currency, to_currency) called on its own; the
\* worker keeps the arguments and the outcome until it answers
ConvertAmountCall(w, amount, e40, from_currency, to_currency) ==
    /\ pc[w] = "idle"
    /\ LET res == convert_amount_call(amount, e40, from_currency, to_currency)
       IN  loc' = [loc EXCEPT ![w] =
                     [kind |-> "convert_amount", amount |-> amount, e40 |-> e40,
                      from_currency |-> from_currency, to_currency |-> to_currency,
                      raised |-> res.raised, value |-> res.value,
                      fetches |-> res.fetches]]
    /\ pc' = [pc EXCEPT ![w] = "respond"]
    /\ UNCHANGED <<profile, txs, orders, cart, session, started, other, faults, account, alerts, resolver>>

(* ---------------------------- specifications --------------------------- *)
\* the statements worker w may execute
Serve(w) ==
    \/ \E a \in TopUpAmounts, c \in Currencies : TopUpBegin(w, a, c)
    \/ TopUpPost(w)
    \/ TopUpLog(w)
    \/ \E o \in 1..MaxOrders, u \in BOOLEAN : PayBegin(w, o, u)
    \/ PayAtomic(w)
    \/ PayFinish(w)
    \/ \E c \in Currencies : SettingsPost(w, c)
    \/ \E c \in Currencies : ProfileSettingsPost(w, c)
    \/ ProfileSettingsFormValid(w)
    \/ SettingsSave(w)
    \/ \E a \in DirectAmounts, c \in Currencies : DeductBalanceCall(w, a, c)
    \/ \E c \in Currencies : ConvertBalanceCall(w, c)
    \/ Respond(w)

\* two workers: the statements of two requests interleave
Next ==
    \/ \E g \in Games : CartAdd(g)
    \/ CheckoutPost
    \/ \E w \in Workers : Serve(w)

Spec == Init /\ [][Next]_vars

\* one worker: requests are served one at a time, each to completion
SeqNext ==
    \/ \E g \in Games : CartAdd(g)
    \/ CheckoutPost
    \/ Serve("w1")

SeqSpec == Init /\ [][SeqNext]_vars

\* amounts typed into the top-up form around the minimum (1.00 USD, 0.92 EUR),
\* and amounts passed to add_balance and deduct_balance, in mills
FineAmounts == {NotANumber, -5000, 0, 900, 919, 920, 999, 1000, 1005}
CallAmounts == {NotANumber, -6000, 0, 500}

\* the wallet alone, one request at a time: top-ups and direct method calls
WalletNext ==
    \/ \E a \in FineAmounts, c \in Currencies : TopUpBegin("w1", a, c)
    \/ TopUpPost("w1")
    \/ TopUpLog("w1")
    \/ \E a \in CallAmounts, c \in Currencies : AddBalanceCall("w1", a, c)
    \/ \E a \in CallAmounts, c \in Currencies : DeductBalanceCall("w1", a, c)
    \/ \E c \in Currencies : ConvertBalanceCall("w1", c)
    \/ Respond("w1")

WalletSpec == Init /\ [][WalletNext]_vars

\* amounts passed to convert_amount, in mills: both signs, exact halves of a
\* cent before and after conversion, and the amounts of the tests
ConvAmounts == {-10005, -5, 0, 5, 23, 1000, 10000, 10005, 41000}

\* the resolver alone: calls of convert_amount, one at a time
ConvNext ==
    \/ \E a \in ConvAmounts, e \in BOOLEAN, f \in Codes, t \in Codes :
           ConvertAmountCall("w1", a, e, f, t)
    \/ Respond("w1")

ConvSpec == Init /\ [][ConvNext]_vars

(* --------------------------- username change --------------------------- *)
\* hours of clock the model lets pass in one behaviour
MaxClock == 49
\* the rate limit of clean_new_username, 24 * 3600 seconds, in hours
RateLimitHours == 24

\* UserProfile.steam_id of the user: empty, the account is not linked to Steam
steam_id == ""
\* usernames of the other users of the site
OtherUsers == {"taken"}
\* values posted in the new_username field
NameInputs == {"", "rateuser", "firstchange", "FirstChange", " secondchange ",
               "secondchange", "TAKEN"}

\* str.strip() and str.lower() on the values above
Strip(s) == IF s = " secondchange " THEN "secondchange" ELSE s
Lower(s) == CASE s = "FirstChange" -> "firstchange"
              [] s = "TAKEN" -> "taken"
              [] OTHER -> s

\* ProfileAppearanceForm.clean_new_username: the cleaned value, or the
\* validation error it raises
clean_new_username(raw) ==
    LET val == Strip(raw)
        delta == now - last_username_change[1]
    IN  IF val = "" THEN [error |-> "", value |-> ""]
        ELSE IF steam_id # "" THEN [error |-> "steam", value |-> val]
        ELSE IF \E u \in OtherUsers : Lower(u) = Lower(val)
             THEN [error |-> "taken", value |-> val]
        ELSE IF /\ Lower(username) # Lower(val)
                /\ last_username_change # <<>>
                /\ delta < RateLimitHours
             THEN [error |-> "rate_limit", value |-> val]
        ELSE [error |-> "", value |-> val]

\* POST /profile/edit/ with the other fields blank: form validation, then
\* ProfileAppearanceForm.save() and the redirect, or the form shown again
ProfileEditPost(w, raw) ==
    /\ pc[w] = "idle"
    /\ LET cleaned == clean_new_username(raw)
           new_username == cleaned.value
           changes == /\ cleaned.error = ""
                      /\ new_username # ""
                      /\ steam_id = ""
                      /\ username # new_username
       IN  /\ username' = IF changes THEN new_username ELSE username
           /\ last_username_change' =
                  IF changes THEN <<now>> ELSE last_username_change
           /\ loc' = [loc EXCEPT ![w] =
                        [kind |-> "profile_edit", new_username |-> raw,
                         error |-> cleaned.error,
                         status |-> IF cleaned.error = "" THEN 302 ELSE 200]]
    /\ pc' = [pc EXCEPT ![w] = "respond"]
    /\ UNCHANGED <<profile, txs, orders, cart, session, started, other, faults, now,
                   alerts, resolver>>

\* an hour passes
Tick ==
    /\ now < MaxClock
    /\ now' = now + 1
    /\ UNCHANGED <<profile, txs, orders, cart, session, pc, loc, started, other,
                   faults, username, last_username_change, alerts, resolver>>

\* the profile edit form alone, one request at a time, while time passes
AccountNext ==
    \/ \E raw \in NameInputs : ProfileEditPost("w1", raw)
    \/ Respond("w1")
    \/ Tick

AccountSpec == Init /\ [][AccountNext]_vars

(* ----------------------------- price watch ----------------------------- *)
\* the users: "wish" has the games in the wishlist and notify_price_drop on,
\* "quiet" has them in the wishlist with notify_price_drop off, "fan" has
\* notify_price_drop on and an empty wishlist
WatchUsers == <<"wish", "quiet", "fan">>
wishlist == [u \in {"wish", "quiet", "fan"} |->
               IF u = "fan" THEN {} ELSE WatchGames]
notify_price_drop == [u \in {"wish", "quiet", "fan"} |-> u # "quiet"]
\* Game.objects.filter(appid__isnull=False), in primary key order
WatchOrder == <<"galaxy-run", "manual">>

\* prices an editor gives a game, in mills: free, 14.00, 17.00 and 20.00
WatchPrices == {0, 14000, 17000, 20000}
\* values of --threshold
Thresholds == {0, 10, 15}

\* the test of handle on old_price, current_price and threshold:
\* drop_percent >= threshold and current_price < old_price
price_dropped_strict(old_price, current_price, threshold) ==
    /\ old_price > 0
    /\ (old_price - current_price) * 100 > threshold * old_price
    /\ current_price < old_price

price_dropped(old_price, current_price, threshold) ==
    /\ IF old_price > 0
       THEN (old_price - current_price) * 100 >= threshold * old_price
       ELSE 0 >= threshold
    /\ current_price < old_price

\* int(drop_percent): truncation towards zero
IntPercent(old_price, current_price) ==
    IF old_price > 0
    THEN Sgn(old_price - current_price)
           * ((Abs(old_price - current_price) * 100) \div old_price)
    ELSE 0

\* the date of the latest snapshot of g on or before today, 0 when none
LatestDate(snaps, g) ==
    LET ds == {d \in 1..today : snaps[g][d] # NoSnap}
    IN  IF ds = {} THEN 0 ELSE CHOOSE d \in ds : \A e \in ds : e <= d

\* the body of the loop of handle for game g: the notifications it creates
RECURSIVE NotifyWishlisters(_, _, _, _)
NotifyWishlisters(i, g, old, dry) ==
    IF i > Len(WatchUsers) THEN <<>>
    ELSE LET u == WatchUsers[i]
             rest == NotifyWishlisters(i + 1, g, old, dry)
         IN  IF g \in wishlist[u] /\ notify_price_drop[u] /\ ~dry
             THEN <<[user |-> u, kind |-> "price_drop", game |-> g,
                     old_price |-> old.price, new_price |-> game[g].price,
                     percent |-> IntPercent(old.price, game[g].price)]>> \o rest
             ELSE rest

GameNotifications(g, threshold, dry) ==
    LET latest == LatestDate(snapshots, g)
        old == IF latest = 0 THEN NoSnap ELSE snapshots[g][latest]
    IN  IF /\ old # NoSnap
           /\ old.currency = game[g].currency
           /\ price_dropped(old.price, game[g].price, threshold)
        THEN NotifyWishlisters(1, g, old, dry)
        ELSE <<>>

\* the body of the loop of handle for game g: today's snapshot afterwards,
\* created or updated to the current price and currency
GameSnapshots(g) == [snapshots[g] EXCEPT ![today] = game[g]]

RECURSIVE RunNotifications(_, _, _)
RunNotifications(i, threshold, dry) ==
    IF i > Len(WatchOrder) THEN <<>>
    ELSE (IF appid[WatchOrder[i]] # 0
          THEN GameNotifications(WatchOrder[i], threshold, dry)
          ELSE <<>>) \o RunNotifications(i + 1, threshold, dry)

\* manage.py snapshot_prices --threshold T [--dry-run]; Notification inserts
\* succeed
SnapshotPrices(threshold, dry) ==
    /\ Len(notifications) < MaxNotifications
    /\ notifications' = notifications \o RunNotifications(1, threshold, dry)
    /\ snapshots' = [g \in WatchGames |->
                       IF appid[g] # 0 THEN GameSnapshots(g) ELSE snapshots[g]]
    /\ UNCHANGED <<game, today>>
    /\ UNCHANGED <<profile, txs, orders, cart, session, pc, loc, started, other,
                   faults, account, resolver>>

\* an editor changes the price or the currency of a game
SetPrice(g, price, currency) ==
    /\ game' = [game EXCEPT ![g] = [price |-> price, currency |-> currency]]
    /\ UNCHANGED <<snapshots, today, notifications>>
    /\ UNCHANGED <<profile, txs, orders, cart, session, pc, loc, started, other,
                   faults, account, resolver>>

\* midnight passes
NextDay ==
    /\ today < MaxDay
    /\ today' = today + 1
    /\ UNCHANGED <<game, snapshots, notifications>>
    /\ UNCHANGED <<profile, txs, orders, cart, session, pc, loc, started, other,
                   faults, account, resolver>>

\* the price watch alone: price edits, days, and runs of the command
WatchNext ==
    \/ \E p \in WatchPrices, c \in Currencies : SetPrice("galaxy-run", p, c)
    \/ \E p \in {14000, 20000} : SetPrice("manual", p, "USD")
    \/ NextDay
    \/ \E t \in Thresholds, dry \in BOOLEAN : SnapshotPrices(t, dry)

WatchSpec == Init /\ [][WatchNext]_vars

(* ------------------ rate resolver: cache, storage, network ------------- *)
\* _TTL_SECONDS, 3600 seconds, in ticks
TTL_TICKS == 2
\* len(_FALLBACK_USD) for the table the model keeps
LenFallback == Cardinality(Supported)
\* the keys of a rate set, in dict order
TargetOrder == <<"USD", "EUR", "UAH">>

\* a rate read from storage or from the provider, times 100: float(r.rate)
\* and Decimal(str(rate)) give the same decimal back
StoredRate(n) == [num |-> n, den |-> 100, err |-> 0]

\* line 38: base in _CACHE and (now - _CACHE_TS.get(base, 0)) <= _TTL_SECONDS
cache_hit_inclusive(base, t) ==
    /\ rate_cache[base] # NoCache
    /\ t - rate_cache_ts[base].t <= TTL_TICKS

\* line 38: base in _CACHE and (now - _CACHE_TS.get(base, 0)) < _TTL_SECONDS
cache_hit(base, t) ==
    /\ rate_cache[base] # NoCache
    /\ t - rate_cache_ts[base].t < TTL_TICKS

\* where a call goes after line 38 when the flag is never looked at
fetch_path_live(base, t) ==
    IF cache_hit(base, t) THEN "cache" ELSE "fetch_live"

\* where a call of _fetch_rates(base) started at t goes after lines 38-41
fetch_path(base, t) ==
    IF cache_hit(base, t) THEN "cache"
    ELSE IF ~fetch_enabled THEN "fetch_db"
    ELSE "fetch_live"

\* CurrencyRate.objects.filter(base=base), oldest first
BaseRows(base) == SelectSeq(records, LAMBDA r : r.base = base)

\* _fetch_rates that never reads the stored rows
db_rates_none(base) == <<>>

\* the dict built from recs = ...order_by('-fetched_at')[:len(_FALLBACK_USD)]:
\* recs is walked newest first and every row assigns its target's entry, so the
\* entry left for a target is that of the last row walked
db_rates(base) ==
    LET rows == BaseRows(base)
        n == Len(rows)
        lo == IF n > LenFallback THEN n - LenFallback + 1 ELSE 1
        targets == {rows[i].target : i \in lo..n} \cap Supported
    IN  [c \in targets |->
           LET i == CHOOSE i \in lo..n :
                      /\ rows[i].target = c
                      /\ \A j \in lo..n : rows[j].target = c => i <= j
           IN  StoredRate(rows[i].rate)]

\* line 73: the supported keys of the provider's answer
filtered(resp) ==
    IF resp.ok
    THEN [c \in DOMAIN resp.rates \cap Supported |-> StoredRate(resp.rates[c])]
    ELSE <<>>

\* lines 83-85: the rows bulk_create inserts for a rate set, in dict order
RECURSIVE RateRows(_, _, _)
RateRows(i, base, rates) ==
    IF i > Len(TargetOrder) THEN <<>>
    ELSE (IF TargetOrder[i] \in DOMAIN rates
          THEN <<[base |-> base, target |-> TargetOrder[i],
                  rate |-> rates[TargetOrder[i]].num]>>
          ELSE <<>>) \o RateRows(i + 1, base, rates)

\* the locals of a call of _fetch_rates, and of the convert_amount around it
NoCall ==
    [kind |-> "fetch", base |-> "USD", id |-> 0, now |-> 0, ret |-> "respond",
     path |-> "none", result |-> <<>>, requested |-> FALSE,
     amount |-> 0, from_currency |-> "USD", to_currency |-> "USD",
     rates_from |-> <<>>, pivot |-> FALSE, value |-> 0]

\* _fetch_rates(base) returns rates to its caller, which continues at l.ret
Return(w, l, path, rates) ==
    /\ loc' = [loc EXCEPT ![w] = [l EXCEPT !.path = path, !.result = rates]]
    /\ pc' = [pc EXCEPT ![w] = l.ret]

\* lines 37-41 of a call started by worker w with locals l: now = time.time(),
\* the cache check and the flag
FetchEnter(w, l, base) ==
    /\ calls < MaxCalls
    /\ calls' = calls + 1
    /\ LET m == [l EXCEPT !.base = base, !.id = calls + 1, !.now = clock,
                          !.path = "none", !.result = <<>>]
           path == fetch_path(base, clock)
       IN  IF path = "cache"
           THEN Return(w, m, "cache", rate_cache[base].rates)
           ELSE /\ loc' = [loc EXCEPT ![w] = m]
                /\ pc' = [pc EXCEPT ![w] = path]

\* _fetch_rates(base) called on its own
FetchBegin(w, base) ==
    /\ pc[w] = "idle"
    /\ FetchEnter(w, NoCall, base)
    /\ UNCHANGED <<rate_cache, rate_cache_ts, records, fetch_enabled, clock,
                   net_requests>>
    /\ UNCHANGED <<profile, txs, orders, cart, session, started, other, faults,
                   account, alerts>>

\* lines 61-75: the request to the provider and its answer resp; an answer
\* with supported rates is put in _CACHE
FetchLive(w, resp) ==
    /\ pc[w] = "fetch_live"
    /\ net_requests' = net_requests + 1
    /\ LET l == [loc[w] EXCEPT !.requested = TRUE]
           rates == filtered(resp)
       IN  IF DOMAIN rates # {}
           THEN /\ rate_cache' = [rate_cache EXCEPT ![l.base] =
                                    [rates |-> rates, by |-> l.id]]
                /\ loc' = [loc EXCEPT ![w] = [l EXCEPT !.result = rates]]
                /\ pc' = [pc EXCEPT ![w] = "fetch_live_ts"]
           ELSE /\ UNCHANGED rate_cache
                /\ loc' = [loc EXCEPT ![w] = l]
                /\ pc' = [pc EXCEPT ![w] = "fetch_db"]
    /\ UNCHANGED <<rate_cache_ts, records, fetch_enabled, clock, calls>>
    /\ UNCHANGED <<profile, txs, orders, cart, session, started, other, faults,
                   account, alerts>>

\* line 76: _CACHE_TS[base] = now
FetchLiveStamp(w) ==
    /\ pc[w] = "fetch_live_ts"
    /\ rate_cache_ts' = [rate_cache_ts EXCEPT ![loc[w].base] =
                           [t |-> loc[w].now, by |-> loc[w].id]]
    /\ pc' = [pc EXCEPT ![w] = "fetch_persist"]
    /\ UNCHANGED <<rate_cache, records, fetch_enabled, clock, calls, net_requests,
                   loc>>
    /\ UNCHANGED <<profile, txs, orders, cart, session, started, other, faults,
                   account, alerts>>

\* lines 78-88: the rates are stored, best effort (stored says the insert went
\* through), and returned
FetchPersist(w, stored) ==
    /\ pc[w] = "fetch_persist"
    /\ records' = IF stored
                  THEN records \o RateRows(1, loc[w].base, loc[w].result)
                  ELSE records
    /\ Return(w, loc[w], "live", loc[w].result)
    /\ UNCHANGED <<rate_cache, rate_cache_ts, fetch_enabled, clock, calls,
                   net_requests>>
    /\ UNCHANGED <<profile, txs, orders, cart, session, started, other, faults,
                   account, alerts>>

\* lines 43-48 and 92-98, then 53-60 and 103-114: the stored rates (the read
\* succeeds) are put in _CACHE; without any, the static table is returned
FetchDb(w) ==
    /\ pc[w] = "fetch_db"
    /\ LET l == loc[w]
           rates == db_rates(l.base)
       IN  IF DOMAIN rates # {}
           THEN /\ rate_cache' = [rate_cache EXCEPT ![l.base] =
                                    [rates |-> rates, by |-> l.id]]
                /\ loc' = [loc EXCEPT ![w] = [l EXCEPT !.result = rates]]
                /\ pc' = [pc EXCEPT ![w] = "fetch_db_ts"]
           ELSE /\ UNCHANGED rate_cache
                /\ Return(w, l, "static", fetch_rates(l.base))
    /\ UNCHANGED <<rate_cache_ts, records, fetch_enabled, clock, calls,
                   net_requests>>
    /\ UNCHANGED <<profile, txs, orders, cart, session, started, other, faults,
                   account, alerts>>

\* lines 49-50 and 99-100: _CACHE_TS[base] = now; return db_rates
FetchDbStamp(w) ==
    /\ pc[w] = "fetch_db_ts"
    /\ rate_cache_ts' = [rate_cache_ts EXCEPT ![loc[w].base] =
                           [t |-> loc[w].now, by |-> loc[w].id]]
    /\ Return(w, loc[w], "db", loc[w].result)
    /\ UNCHANGED <<rate_cache, records, fetch_enabled, clock, calls, net_requests>>
    /\ UNCHANGED <<profile, txs, orders, cart, session, started, other, faults,
                   account, alerts>>

\* convert_amount(amount, from_currency, to_currency), lines 117-120: equal
\* currencies only round; otherwise _fetch_rates(from_currency) is called
ConvertBegin(w, amount, from_currency, to_currency) ==
    /\ pc[w] = "idle"
    /\ LET l == [NoCall EXCEPT !.kind = "convert", !.amount = amount,
                               !.from_currency = from_currency,
                               !.to_currency = to_currency, !.ret = "conv_from"]
       IN  IF from_currency = to_currency
           THEN /\ loc' = [loc EXCEPT ![w] = [l EXCEPT !.value = RoundHalfUp2(amount)]]
                /\ pc' = [pc EXCEPT ![w] = "respond"]
                /\ UNCHANGED calls
           ELSE FetchEnter(w, l, from_currency)
    /\ UNCHANGED <<rate_cache, rate_cache_ts, records, fetch_enabled, clock,
                   net_requests>>
    /\ UNCHANGED <<profile, txs, orders, cart, session, started, other, faults,
                   account, alerts>>

\* lines 121-125 and 135-136: with a rate for to_currency the amount is
\* converted; without, _fetch_rates('USD') is called
ConvertFrom(w) ==
    /\ pc[w] = "conv_from"
    /\ LET l == [loc[w] EXCEPT !.rates_from = loc[w].result]
       IN  IF l.to_currency \in DOMAIN l.rates_from
           THEN /\ loc' = [loc EXCEPT ![w] = [l EXCEPT !.value =
                             convert_with_rates(l.amount, l.from_currency,
                                                l.to_currency, l.rates_from, <<>>)]]
                /\ pc' = [pc EXCEPT ![w] = "respond"]
                /\ UNCHANGED calls
           ELSE FetchEnter(w, [l EXCEPT !.pivot = TRUE, !.ret = "conv_usd"], "USD")
    /\ UNCHANGED <<rate_cache, rate_cache_ts, records, fetch_enabled, clock,
                   net_requests>>
    /\ UNCHANGED <<profile, txs, orders, cart, session, started, other, faults,
                   account, alerts>>

\* lines 126-134: the pivot through the USD rates, or the amount itself
ConvertUsd(w) ==
    /\ pc[w] = "conv_usd"
    /\ loc' = [loc EXCEPT ![w].value =
                 convert_with_rates(loc[w].amount, loc[w].from_currency,
                                    loc[w].to_currency, loc[w].rates_from,
                                    loc[w].result)]
    /\ pc' = [pc EXCEPT ![w] = "respond"]
    /\ UNCHANGED <<rate_cache, rate_cache_ts, records, fetch_enabled, clock, calls,
                   net_requests>>
    /\ UNCHANGED <<profile, txs, orders, cart, session, started, other, faults,
                   account, alerts>>

\* CurrencyRate.objects.create(base=..., target=..., rate=...)
CreateRate(base, target, rate) ==
    /\ Len(records) < MaxRates
    /\ records' = Append(records, [base |-> base, target |-> target, rate |-> rate])
    /\ UNCHANGED <<rate_cache, rate_cache_ts, fetch_enabled, clock, calls,
                   net_requests>>
    /\ UNCHANGED <<profile, txs, orders, cart, session, pc, loc, started, other,
                   faults, account, alerts>>

\* settings.CURRENCY_FETCH_ENABLED is overridden while no call is running
OverrideSettings(flag) ==
    /\ \A w \in Workers : pc[w] = "idle"
    /\ fetch_enabled # flag
    /\ fetch_enabled' = flag
    /\ UNCHANGED <<rate_cache, rate_cache_ts, records, clock, calls, net_requests>>
    /\ UNCHANGED <<profile, txs, orders, cart, session, pc, loc, started, other,
                   faults, account, alerts>>

\* 1800 seconds pass while no call is running
ClockTick ==
    /\ \A w \in Workers : pc[w] = "idle"
    /\ clock < Epoch + MaxTicks
    /\ clock' = clock + 1
    /\ UNCHANGED <<rate_cache, rate_cache_ts, records, fetch_enabled, calls,
                   net_requests>>
    /\ UNCHANGED <<profile, txs, orders, cart, session, pc, loc, started, other,
                   faults, account, alerts>>

\* rows created by hand for base USD: two rates of EUR, one of UAH, and a
\* currency that is not in the table
SeedRates == {<<"EUR", 90>>, <<"EUR", 95>>, <<"UAH", 3825>>, <<"XYZ", 500>>}
\* the amount passed to convert_amount, in mills: 0.11
PivotAmounts == {110}

\* answers of the provider: an error or a malformed body, a body without
\* rates, all rates with one unsupported currency, and one rate
LiveResponses ==
    {[ok |-> FALSE, rates |-> <<>>],
     [ok |-> TRUE, rates |-> <<>>],
     [ok |-> TRUE, rates |-> [c \in Codes |->
         CASE c = "USD" -> 100 [] c = "EUR" -> 91 [] c = "UAH" -> 4050
           [] OTHER -> 500]],
     [ok |-> TRUE, rates |-> [c \in {"EUR"} |-> 93]]}

\* the steps of a call of _fetch_rates by worker w
FetchSteps(w) ==
    \/ \E r \in LiveResponses : FetchLive(w, r)
    \/ FetchLiveStamp(w)
    \/ \E stored \in BOOLEAN : FetchPersist(w, stored)
    \/ FetchDb(w)
    \/ FetchDbStamp(w)

\* the resolver, one call at a time: rows created by hand, the flag, the
\* clock, and calls of _fetch_rates
RateNext ==
    \/ \E r \in SeedRates : CreateRate("USD", r[1], r[2])
    \/ \E b \in BOOLEAN : OverrideSettings(b)
    \/ ClockTick
    \/ \E b \in Bases : FetchBegin("w1", b)
    \/ FetchSteps("w1")
    \/ \E a \in PivotAmounts, f \in Bases, t \in {"EUR", "UAH"} :
           ConvertBegin("w1", a, f, t)
    \/ ConvertFrom("w1")
    \/ ConvertUsd("w1")
    \/ Respond("w1")

RateSpec == Init /\ [][RateNext]_vars

\* the resolver under two request threads: calls of _fetch_rates("USD") whose
\* statements interleave, while the flag and the clock change between calls
RaceNext ==
    \/ \E b \in BOOLEAN : OverrideSettings(b)
    \/ ClockTick
    \/ \E w \in Workers : FetchBegin(w, "USD")
    \/ \E w \in Workers : FetchSteps(w)
    \/ \E w \in Workers : Respond(w)

RaceSpec == Init /\ [][RaceNext]_vars

\* amounts credited before a change of currency, in mills: 0.01, 0.10, 1.00
TripAmounts == {10, 100, 1000}

\* the wallet under changes of the preferred currency over all supported
\* currencies, one request at a time
TripNext ==
    \/ \E a \in TripAmounts, c \in Supported : AddBalanceCall("w1", a, c)
    \/ \E c \in Supported : ConvertBalanceCall("w1", c)
    \/ Respond("w1")

TripSpec == Init /\ [][TripNext]_vars

(* ------------------------------- properties ---------------------------- *)
Rows(kind) == {i \in DOMAIN txs : txs[i].kind = kind}

\* the sum of the amounts of the first n rows of the log
RECURSIVE SumAmounts(_)
SumAmounts(n) == IF n = 0 THEN 0 ELSE txs[n].amount + SumAmounts(n - 1)

\* a wallet payment of worker w has run its atomic block
PayRan(w) == pc[w] = "pay_finish" /\ loc[w].kind = "pay"

\* C1: two wallet debits of 6.00 that both read a balance of 10.00 before
\* either saves: exactly one succeeds, exactly one purchase_deduct row is
\* recorded and the stored balance ends at 4.00.
C1_ExactlyOneDebitSucceeds ==
    (\A w \in Workers : /\ PayRan(w)
                        /\ loc[w].use_wallet
                        /\ loc[w].order.status = "pending"
                        /\ loc[w].loaded.balance = 10000
                        /\ loc[w].to_charge = 6000
                        /\ loc[w].committed)
    => /\ Cardinality({w \in Workers : loc[w].ok}) = 1
       /\ Cardinality(Rows("purchase_deduct")) = 1
       /\ profile.balance = 4000

\* C2: served one request at a time, with only top-ups and payments and no
\* failed insert, after every request the stored balance is the sum of the
\* amounts of the rows and every balance_after is the running sum.
C2_LedgerSum ==
    ((\A w \in Workers : pc[w] = "idle") /\ ~other /\ faults = 0)
    => /\ profile.balance = SumAmounts(Len(txs))
       /\ \A i \in DOMAIN txs : txs[i].balance_after = SumAmounts(i)

\* the amount of a debit converted into the currency of the instance
Converted(l) ==
    IF l.currency # l.loaded.preferred_currency
    THEN convert_amount(l.amount, l.currency, l.loaded.preferred_currency)
    ELSE l.amount

\* C3: a debit (allow_negative false) whose converted amount exceeds the
\* balance returns False, leaves the stored balance as it was and adds no
\* row, for a direct deduct_balance call and for a wallet payment.
C3_InsufficientDebitIsNoOp ==
    \A w \in Workers :
        /\ (/\ pc[w] = "respond" /\ loc[w].kind = "deduct_balance"
            /\ Converted(loc[w]) > loc[w].loaded.balance)
           => /\ ~loc[w].ok
              /\ profile.balance = loc[w].loaded.balance
              /\ Len(txs) = loc[w].rows
        /\ (/\ PayRan(w) /\ loc[w].use_wallet /\ loc[w].order.status = "pending"
            /\ loc[w].to_charge > loc[w].loaded.balance)
           => /\ ~loc[w].ok
              /\ profile.balance = loc[w].loaded.balance
              /\ Len(txs) = loc[w].rows

C3_Witness ==
    \E w \in Workers :
        /\ pc[w] = "respond" /\ loc[w].kind = "deduct_balance"
        /\ loc[w].loaded.balance > 0
        /\ Converted(loc[w]) > loc[w].loaded.balance
        /\ ~loc[w].ok

\* C4: a top-up or wallet payment whose WalletTransaction row was not
\* written has left the stored balance as it found it.
C4_BalanceAndRowAreAtomic ==
    \A w \in Workers :
        (/\ pc[w] = "respond" /\ loc[w].kind \in {"topup", "pay"}
         /\ ~loc[w].logged)
        => profile.balance = loc[w].loaded.balance

\* C5: two top-ups of two-decimal amounts a and b that both read the balance
\* before either saves leave the stored balance at initial + a + b.
C5_NoLostCredit ==
    (/\ \A w \in Workers : /\ pc[w] \in {"topup_log", "respond"}
                           /\ loc[w].kind = "topup" /\ loc[w].ok
                           /\ loc[w].to_charge % 10 = 0
     /\ loc["w1"].loaded = loc["w2"].loaded)
    => profile.balance =
          loc["w1"].loaded.balance + loc["w1"].to_charge + loc["w2"].to_charge

\* C6: the stored balance is never negative.
C6_BalanceNeverNegative == profile.balance >= 0

C6_Witness ==
    /\ Rows("topup") # {}
    /\ Rows("purchase_deduct") # {}
    /\ profile.preferred_currency # "USD"
    /\ profile.balance > 0

\* C7: after a settings form changed the preferred currency from A to B, the
\* stored balance is convert_amount(previous balance, A, B) and the stored
\* currency is B.
C7_SettingsConvertBalance ==
    \A w \in Workers :
        (/\ pc[w] = "respond" /\ loc[w].kind \in {"settings", "profile_settings"}
         /\ loc[w].currency # loc[w].loaded.preferred_currency)
        => /\ profile.preferred_currency = loc[w].currency
           /\ profile.balance = convert_amount(loc[w].loaded.balance,
                                    loc[w].loaded.preferred_currency, loc[w].currency)

\* C8: convert_balance(new_currency) changes nothing when new_currency is the
\* current preferred currency; otherwise the row holds the converted balance
\* and the new currency, nothing else of the row changed, and no row was
\* added to the log.
C8_ConvertBalanceContract ==
    \A w \in Workers :
        (pc[w] = "respond" /\ loc[w].kind = "convert_balance")
        => LET old == loc[w].loaded
               new_cur == loc[w].currency
           IN  /\ Len(txs) = loc[w].rows
               /\ profile.total_spent = old.total_spent
               /\ IF new_cur = old.preferred_currency
                  THEN profile = old
                  ELSE /\ profile.preferred_currency = new_cur
                       /\ profile.balance =
                            QuantizeHalfUp(old.balance * FALLBACK_USD[new_cur],
                                           FALLBACK_USD[old.preferred_currency],
                                           FloatRateErr(old.preferred_currency, new_cur))

C8_Witness ==
    \E w \in Workers :
        /\ pc[w] = "respond" /\ loc[w].kind = "convert_balance"
        /\ loc[w].currency # loc[w].loaded.preferred_currency
        /\ loc[w].loaded.balance > 0
        /\ profile.balance # loc[w].loaded.balance

\* C9: a wallet payment on a pending order marks the order paid when the
\* debit is recorded; when the balance does not cover the converted total
\* the user is told so, balance and log stay as they were and the order is
\* paid through the non-wallet path.
C9_WalletPaymentOutcome ==
    \A w \in Workers :
        (PayRan(w) /\ loc[w].use_wallet /\ loc[w].order.status = "pending")
        => /\ (loc[w].ok /\ loc[w].logged) => orders[loc[w].oid].status = "paid"
           /\ (loc[w].to_charge > loc[w].loaded.balance)
              => /\ "insufficient" \in loc[w].msgs
                 /\ profile.balance = loc[w].loaded.balance
                 /\ Len(txs) = loc[w].rows
                 /\ orders[loc[w].oid].status = "paid"

\* C10: a wallet debit of converted amount d from balance b, 0 < d <= b,
\* returns True, and once committed the stored balance is b - d and the last
\* row is a purchase_deduct of amount -d in the preferred currency with
\* balance_after b - d.
C10_SuccessfulDebit ==
    \A w \in Workers :
        LET b == loc[w].loaded.balance
            d == loc[w].to_charge
        IN  (/\ PayRan(w) /\ loc[w].use_wallet /\ loc[w].order.status = "pending"
             /\ 0 < d /\ d <= b)
            => /\ loc[w].ok
               /\ loc[w].committed
                  => /\ profile.balance = b - d
                     /\ Len(txs) = loc[w].rows + 1
                     /\ txs[Len(txs)].kind = "purchase_deduct"
                     /\ txs[Len(txs)].amount = -d
                     /\ txs[Len(txs)].currency = loc[w].loaded.preferred_currency
                     /\ txs[Len(txs)].balance_after = b - d

C10_Witness ==
    \E w \in Workers :
        /\ PayRan(w) /\ loc[w].ok /\ loc[w].committed
        /\ loc[w].to_charge = 6000
        /\ profile.balance = loc[w].loaded.balance - 6000

\* a top-up of worker w was accepted and has answered
TopUpDone(w) ==
    pc[w] = "respond" /\ loc[w].kind = "topup" /\ "topped_up" \in loc[w].msgs

\* C11: an accepted top-up of amount a in currency C for a user with
\* preferred currency P raises the stored balance by convert_amount(a, C, P),
\* by a itself when C = P, and adds exactly one topup row whose amount is
\* that increase, whose currency is P and whose balance_after is the stored
\* balance (no insert failing).
C11_TopUpCreditsAndLogs ==
    \A w \in Workers :
        (TopUpDone(w) /\ faults = 0)
        => LET l == loc[w]
               P == l.loaded.preferred_currency
               increase == profile.balance - l.loaded.balance
           IN  /\ increase = IF l.currency = P THEN l.amount
                             ELSE convert_amount(l.amount, l.currency, P)
               /\ Len(txs) = l.rows + 1
               /\ txs[Len(txs)].kind = "topup"
               /\ txs[Len(txs)].amount = increase
               /\ txs[Len(txs)].currency = P
               /\ txs[Len(txs)].balance_after = profile.balance

\* C12: on the row written by a top-up or a wallet payment, source_amount and
\* source_currency are set exactly when the currency the caller supplied (the
\* chosen currency, the order currency) differs from the preferred currency,
\* and are both NULL otherwise.
C12_SourceFieldsOnlyOnConversion ==
    \A w \in Workers :
        /\ (TopUpDone(w) /\ loc[w].logged)
           => LET row == txs[Len(txs)]
                  converted == loc[w].currency # loc[w].loaded.preferred_currency
              IN  /\ (row.source_amount # <<>>) <=> converted
                  /\ (row.source_currency # <<>>) <=> converted
        /\ (PayRan(w) /\ loc[w].ok /\ loc[w].logged)
           => LET row == txs[Len(txs)]
                  converted == loc[w].order.currency # loc[w].loaded.preferred_currency
              IN  /\ (row.source_amount # <<>>) <=> converted
                  /\ (row.source_currency # <<>>) <=> converted

\* 1.00 USD in each currency of the form, in mills
MinTopUp == [c \in Currencies |-> IF c = "USD" THEN 1000 ELSE 920]

\* C13: a top-up of a positive amount below the equivalent of 1.00 USD in the
\* chosen currency is rejected, the profile row and the log staying as they
\* were; an amount at or above it is credited.
C13_MinimumTopUp ==
    \A w \in Workers :
        (pc[w] = "respond" /\ loc[w].kind = "topup" /\ loc[w].amount > 0)
        => LET l == loc[w]
           IN  IF l.amount < MinTopUp[l.currency]
               THEN /\ "below_minimum" \in l.msgs
                    /\ profile = l.loaded
                    /\ Len(txs) = l.rows
               ELSE /\ "topped_up" \in l.msgs
                    /\ profile.balance > l.loaded.balance

\* after an accepted top-up of exactly the minimum in EUR, a top-up just
\* below the minimum in USD has been rejected
C13_Witness ==
    \E w \in Workers :
        /\ pc[w] = "respond" /\ loc[w].kind = "topup"
        /\ loc[w].amount = 999 /\ loc[w].currency = "USD"
        /\ "below_minimum" \in loc[w].msgs
        /\ Len(txs) > 0
        /\ txs[1].source_amount = <<920>>
        /\ profile.balance > 0

C15_StoredAmountsRoundHalfUp ==
    \A w \in Workers :
        (TopUpDone(w) /\ loc[w].logged)
        => LET l == loc[w]
               credited == IF l.currency = l.loaded.preferred_currency
                           THEN RoundHalfUp2(l.amount)
                           ELSE convert_amount(l.amount, l.currency,
                                               l.loaded.preferred_currency)
           IN  /\ profile.balance = l.loaded.balance + credited
               /\ txs[Len(txs)].amount = credited
               /\ txs[Len(txs)].balance_after = l.loaded.balance + credited

\* a call of convert_amount by worker w has returned or raised
Converting(w) == pc[w] = "respond" /\ loc[w].kind = "convert_amount"

\* v is x/d mills rounded half-up (ties away from zero) to a whole cent
IsHalfUp(v, x, d) ==
    /\ v % 10 = 0
    /\ (v # 0) => (Sgn(v) = Sgn(x))
    /\ (Abs(v) - 5) * d <= Abs(x)
    /\ Abs(x) < (Abs(v) + 5) * d

\* C16: convert_amount(x, C, C) returns x rounded half-up to two places for
\* every amount x and every code C, without a call of _fetch_rates.
C16_SameCurrencyRounds ==
    \A w \in Workers :
        (Converting(w) /\ loc[w].from_currency = loc[w].to_currency)
        => /\ ~loc[w].raised
           /\ loc[w].fetches = 0
           /\ IsHalfUp(loc[w].value, loc[w].amount, 1)

\* C17: with the static table only, convert_amount(x, B, C) for supported B
\* and C is x * fallback[C] / fallback[B] rounded half-up to two places.
C17_FallbackConversion ==
    \A w \in Workers :
        (/\ Converting(w) /\ ~loc[w].e40
         /\ loc[w].from_currency \in Supported /\ loc[w].to_currency \in Supported)
        => IsHalfUp(loc[w].value,
                    loc[w].amount * FALLBACK_USD[loc[w].to_currency],
                    FALLBACK_USD[loc[w].from_currency])

\* C18: convert_amount never raises, and for a pair of different codes of
\* which one is not in the static table (no rate for the pair anywhere) it
\* returns the amount rounded half-up to two places.
C18_NeverRaisesDegradesToIdentity ==
    \A w \in Workers :
        Converting(w)
        => /\ ~loc[w].raised
           /\ (/\ loc[w].from_currency # loc[w].to_currency
               /\ (loc[w].from_currency \notin Supported
                   \/ loc[w].to_currency \notin Supported))
              => IsHalfUp(loc[w].value, loc[w].amount, 1)

\* C19: a checkout POST with a non-empty cart creates one pending order whose
\* item snapshot is the cart and leaves the cart as it is, and with an empty
\* cart creates no order; a payment POST, when it finishes, leaves its order
\* paid and the cart empty.
C19_CheckoutThenPay ==
    [][/\ CheckoutPost
          => IF CartGames = {}
             THEN orders' = orders
             ELSE /\ Len(orders') = Len(orders) + 1
                  /\ orders'[Len(orders')].status = "pending"
                  /\ orders'[Len(orders')].items = cart
                  /\ cart' = cart
       /\ \A w \in Workers :
            PayFinish(w)
            => /\ orders'[loc[w].oid].status = "paid"
               /\ cart' = [g \in Games |-> 0]]_vars

\* C20: once the username has been changed, a request that asks for another
\* username less than 24 hours after that change is rejected and the username
\* stays; at 24 hours or more a request for a free username is accepted and
\* the username becomes the requested one.
C20_UsernameRateLimit ==
    [][\A raw \in NameInputs :
         (/\ ProfileEditPost("w1", raw)
          /\ last_username_change # <<>>
          /\ Strip(raw) \notin {"", username})
         => IF now - last_username_change[1] < RateLimitHours
            THEN /\ username' = username
                 /\ loc'["w1"].status = 200
            ELSE (\A u \in OtherUsers : Lower(u) # Lower(Strip(raw)))
                 => /\ username' = Strip(raw)
                    /\ loc'["w1"].status = 302]_vars

\* the notifications a step has appended
NewNotifications == SubSeq(notifications', Len(notifications) + 1, Len(notifications'))

\* C21: a run of snapshot_prices with threshold T that is not a dry run
\* notifies a user about a game exactly when the game is in the user's
\* wishlist, the user has notify_price_drop on, and the game's price is lower
\* than the price of its latest snapshot in the same currency by at least T
\* percent, a drop to 0.00 included; a game whose price has not dropped
\* notifies nobody.
C21_PriceDropNotifies ==
    [][\A t \in Thresholds :
         SnapshotPrices(t, FALSE)
         => \A u \in DOMAIN wishlist, g \in WatchGames :
              LET latest == LatestDate(snapshots, g)
                  n == Cardinality({i \in DOMAIN NewNotifications :
                                      /\ NewNotifications[i].user = u
                                      /\ NewNotifications[i].game = g})
                  dropped == /\ latest # 0
                             /\ snapshots[g][latest].currency = game[g].currency
                             /\ game[g].price < snapshots[g][latest].price
                             /\ (snapshots[g][latest].price - game[g].price) * 100
                                  >= t * snapshots[g][latest].price
              IN  n = IF g \in wishlist[u] /\ notify_price_drop[u] /\ dropped
                      THEN 1 ELSE 0]_vars

\* a run has just notified "wish" of a drop of exactly 15 percent, and another
\* of a drop to 0.00
C21_Witness ==
    /\ \E i \in DOMAIN notifications :
         /\ notifications[i].user = "wish"
         /\ notifications[i].percent = 15
    /\ \E i \in DOMAIN notifications : notifications[i].new_price = 0

\* the rate of the row with the latest fetched_at for (base, target)
LatestRate(base, target) ==
    LET rows == BaseRows(base)
        is == {i \in DOMAIN rows : rows[i].target = target}
    IN  rows[CHOOSE i \in is : \A j \in is : j <= i].rate

\* C22: when _fetch_rates(base) answers from the CurrencyRate rows, the rate
\* it returns for a target is the rate of the row with the latest fetched_at
\* for (base, target), and every target returned is a supported currency.
C22_LatestPersistedRate ==
    [][\A w \in Workers :
         (FetchDb(w) /\ DOMAIN db_rates(loc[w].base) # {})
         => /\ DOMAIN loc'[w].result \subseteq Supported
            /\ \A c \in DOMAIN loc'[w].result :
                 loc'[w].result[c].num = LatestRate(loc[w].base, c)]_vars

\* the supported targets that the rows read for base have a rate for
PersistedTargets(base) ==
    {c \in Supported :
       \E i \in DOMAIN BaseRows(base) :
          /\ i > Len(BaseRows(base)) - LenFallback
          /\ BaseRows(base)[i].target = c}

\* C23: a call whose live fetch failed returns normally: the stored rates of
\* base when the rows read hold any, each one the rate of a row for that
\* target, and otherwise the static table derived for base.
C23_LiveFailureFallsBack ==
    [][\A w \in Workers :
         (FetchDb(w) /\ loc[w].requested)
         => LET base == loc[w].base
                res == loc'[w].result
            IN  IF PersistedTargets(base) # {}
                THEN /\ pc'[w] = "fetch_db_ts"
                     /\ DOMAIN res = PersistedTargets(base)
                     /\ \A c \in DOMAIN res :
                          \E i \in DOMAIN BaseRows(base) :
                             /\ BaseRows(base)[i].target = c
                             /\ BaseRows(base)[i].rate = res[c].num
                ELSE /\ pc'[w] = loc[w].ret
                     /\ res = fetch_rates(base)]_vars

\* a call has returned stored rates after its request to the provider failed
C23_Witness ==
    /\ pc["w1"] = "respond"
    /\ loc["w1"].kind = "fetch"
    /\ loc["w1"].requested
    /\ loc["w1"].path = "db"

\* C24: a call of _fetch_rates(base) made less than 3600 seconds (2 ticks)
\* after a rate set was cached for base returns exactly that set, sends no
\* request and reads and writes no row, whatever the flag; at 3600 seconds or
\* more the call is not answered from the cache.
C24_CacheTtl ==
    [][\A w \in Workers, b \in Bases :
         FetchBegin(w, b)
         => IF /\ rate_cache[b] # NoCache
               /\ clock - rate_cache_ts[b].t < TTL_TICKS
            THEN /\ pc'[w] = "respond"
                 /\ loc'[w].path = "cache"
                 /\ loc'[w].result = rate_cache[b].rates
                 /\ UNCHANGED <<rate_cache, rate_cache_ts, records, net_requests>>
            ELSE /\ pc'[w] \in {"fetch_db", "fetch_live"}
                 /\ loc'[w].path # "cache"]_vars

\* a call was answered from a cache entry stored one tick earlier, with the
\* live fetch enabled
C24_Witness ==
    /\ pc["w1"] = "respond"
    /\ loc["w1"].kind = "fetch"
    /\ loc["w1"].path = "cache"
    /\ fetch_enabled
    /\ clock - rate_cache_ts[loc["w1"].base].t = 1

\* C25: while CURRENCY_FETCH_ENABLED is false no step of a call of
\* _fetch_rates or convert_amount sends a request to the rate provider.
C25_NoRequestWhenDisabled ==
    [][~fetch_enabled => net_requests' = net_requests]_vars

\* a convert_amount that went through both calls of _fetch_rates has returned
\* with the flag off and a cache filled earlier
C25_Witness ==
    /\ ~fetch_enabled
    /\ pc["w1"] = "respond"
    /\ loc["w1"].kind = "convert"
    /\ loc["w1"].pivot
    /\ ~loc["w1"].requested
    /\ rate_cache["USD"] # NoCache

\* C26: when the rate set of from_currency has no rate for to_currency and
\* the USD rate set has a rate for both, convert_amount returns
\* amount / rate[from_currency] * rate[to_currency] rounded half-up to two
\* decimals, as if rounded once.
C26_PivotThroughUsd ==
    [][\A w \in Workers :
         (/\ ConvertUsd(w)
          /\ loc[w].from_currency \in DOMAIN loc[w].result
          /\ loc[w].to_currency \in DOMAIN loc[w].result)
         => loc'[w].value =
              QuantizeHalfUp(loc[w].amount * loc[w].result[loc[w].to_currency].num,
                             loc[w].result[loc[w].from_currency].num, 0)]_vars

\* C27: whenever a call of _fetch_rates is answered from the cache, the
\* timestamp it compared was written by the same call that wrote the rate set
\* it returns.
C27_CacheEntryHasOwnTimestamp ==
    [][\A w \in Workers, b \in Bases :
         (FetchBegin(w, b) /\ loc'[w].path = "cache")
         => rate_cache[b].by = rate_cache_ts[b].by]_vars

\* the sum of the totals of the paid orders among the first n
RECURSIVE PaidTotal(_)
PaidTotal(n) ==
    IF n = 0 THEN 0
    ELSE (IF orders[n].status = "paid" THEN orders[n].total_price ELSE 0)
           + PaidTotal(n - 1)

\* C28: a payment POST on an order that is already paid leaves the balance,
\* total_spent and the wallet transaction log as they are; over any sequence
\* of payment POSTs the log holds at most one debit per order and total_spent
\* is at most the sum of the paid orders' totals.
C28_PaidOrderIsNotChargedAgain ==
    [][/\ \A w \in Workers :
            (PayAtomic(w) /\ orders[loc[w].oid].status = "paid")
            => /\ profile' = profile
               /\ txs' = txs
               /\ orders' = orders
       /\ Cardinality(Rows("purchase_deduct")') <= Len(orders')
       /\ profile'.total_spent <= PaidTotal(Len(orders))']_vars

\* a second payment POST on an order paid from the wallet has gone through
\* the view
C28_Witness ==
    /\ pc["w1"] = "pay_finish"
    /\ loc["w1"].kind = "pay"
    /\ loc["w1"].order.status = "paid"
    /\ loc["w1"].use_wallet
    /\ Rows("purchase_deduct") # {}
    /\ profile.balance > 0

\* the sum over the OrderItem snapshot of order o of price * quantity (the
\* line total), each converted into the order's currency
RECURSIVE SnapshotTotal(_, _)
SnapshotTotal(o, gs) ==
    IF gs = {} THEN 0
    ELSE LET g == CHOOSE x \in gs : TRUE
             line == GamePrice[g] * orders[o].items[g]
         IN  (IF GameCurrency[g] # orders[o].currency
              THEN convert_amount(line, GameCurrency[g], orders[o].currency)
              ELSE line) + SnapshotTotal(o, gs \ {g})

\* C29: the total_price of a pending order equals the sum of its OrderItem
\* snapshots' line totals in the order's currency, after any cart changes and
\* checkout POSTs of the session.
C29_TotalMatchesSnapshot ==
    \A o \in DOMAIN orders :
       orders[o].status = "pending"
       => orders[o].total_price = SnapshotTotal(o, Games)

\* C30: when convert_balance changes the currency from A to B, converting
\* back from B to A at the same rates gives a balance within 0.01 of the
\* original, and a positive balance is positive after each of the two
\* conversions.
C30_RoundTripWithinOneCent ==
    [][\A c \in Supported :
         (ConvertBalanceCall("w1", c) /\ c # profile.preferred_currency)
         => LET back == DbDecimal2(
                           convert_balance(profile', profile.preferred_currency).balance)
            IN  /\ Abs(back - profile.balance) <= 10
                /\ profile.balance > 0 => (profile'.balance > 0 /\ back > 0)]_vars

====
